---- MODULE Spec2Model ----
(***************************************************************************)
(* DNSSEC signing layer of skydns2 (dnssec.go): the signature cache, the   *)
(* single-flight coordinator, signSet and sign, as a state machine of      *)
(* concurrent goroutines.                                                  *)
(*                                                                         *)
(* Time is counted in hours from an arbitrary reference instant, so the    *)
(* inception of a signature made at the reference instant is negative.     *)
(***************************************************************************)
EXTENDS Integers, Sequences, FiniteSets, TLC

(* ------------------------------ bounds --------------------------------- *)
\* the clock stops advancing once it has reached MaxClock
MaxClock == 145
\* the private-key signing primitive is invoked at most MaxSigns times
MaxSigns == 2
\* at most MaxDups followers join one call record
MaxDups == 2
\* the buffers handed to byteArith are at most MaxWidth bytes wide
MaxWidth == 2
\* byteArith is called at most MaxCalls times on one buffer
MaxCalls == 2

\* the goroutines
Procs == {1, 2, 3}
\* a call record is referenced by its leader or by a follower: at most one per goroutine
CallIds == Procs
\* the clock jumps the model takes: 144 is the last hour at which a signature
\* made at hour 0 is still valid 24 hours ahead, 145 the first at which it is not
Advances == {144, 145}

(* ------------------------ constants of the program --------------------- *)
Backdate == 3
SignFor == 168
Lookahead == 24
TypeA == 1
TypeNS == 2
TypeSOA == 6
TypeTXT == 16
TypeAAAA == 28
TypeSRV == 33
TypeOPT == 41
TypeRRSIG == 46
TypeDNSKEY == 48
TypeNSEC3 == 50
\* s.config.Ttl, the TTL and original TTL NewRRSIG stamps on a signature
ConfigTtl == 60
\* s.config.MinTtl, the TTL of a synthesized NSEC3
ConfigMinTtl == 30
\* dns.RcodeSuccess, dns.RcodeNameError
RcodeSuccess == 0
RcodeNameError == 3

(* --------------------------- resource records -------------------------- *)
\* owner names and targets are byte strings; "a." and "t."
NameA == <<97, 46>>
NameT == <<116, 46>>

RR(name, rrtype, ttl, rdata) ==
  [name |-> name, rrtype |-> rrtype, ttl |-> ttl, rdata |-> rdata]

RecA1 == RR(NameA, TypeA, 60, [a |-> <<10, 0, 0, 1>>])
RecA2 == RR(NameA, TypeA, 60, [a |-> <<10, 0, 0, 2>>])
RecSrv80 == RR(NameA, TypeSRV, 30,
               [priority |-> 10, weight |-> 100, port |-> 80, target |-> NameT])
RecSrv81 == RR(NameA, TypeSRV, 30,
               [priority |-> 10, weight |-> 100, port |-> 81, target |-> NameT])
RecTxt == RR(NameA, TypeTXT, 60, [txt |-> <<104, 105>>])

\* an RRSIG the message carries before sign, and the OPT record sign appends
RecOldSig == RR(NameA, TypeRRSIG, 60, [covered |-> TypeA, data |-> 0])
RecOpt == RR(<<46>>, TypeOPT, 0, [do |-> TRUE, udpsize |-> 4096])

\* the RRsets handed to signSet by its direct callers
RRsets == { <<RecA1>>, <<RecSrv80>> }

(* ------------------------------ sigCache.key --------------------------- *)
packUint16(i) == << (i \div 256) % 256, i % 256 >>
packUint32(i) ==
  << (i \div 16777216) % 256, (i \div 65536) % 256, (i \div 256) % 256, i % 256 >>

\* sha1.New().Sum(i) writes nothing to the hash: it returns i followed by the
\* SHA-1 digest of the empty input
Sha1Empty == <<218, 57, 163, 238, 94, 107, 75, 13, 50, 85,
               191, 239, 149, 96, 24, 144, 175, 216, 7, 9>>

\* the bytes one record contributes, by the type switch
keyBytes(r) ==
  CASE r.rrtype = TypeSOA -> packUint32(r.rdata.serial)
    [] r.rrtype = TypeSRV -> packUint16(r.rdata.priority) \o packUint16(r.rdata.weight)
                             \o packUint16(r.rdata.weight) \o r.rdata.target
    [] r.rrtype = TypeA -> r.rdata.a
    [] r.rrtype = TypeAAAA -> r.rdata.aaaa
    [] r.rrtype = TypeNSEC3 -> r.rdata.nextDomain
    [] r.rrtype \in {TypeDNSKEY, TypeNS, TypeTXT} -> <<>>
    [] OTHER -> <<>>

RECURSIVE keyData(_)
keyData(rrs) ==
  IF rrs = <<>> THEN <<>> ELSE keyBytes(Head(rrs)) \o keyData(Tail(rrs))

key(rrs) ==
  (rrs[1].name \o packUint16(rrs[1].rrtype) \o keyData(rrs)) \o Sha1Empty

(* ------------------------------ signatures ----------------------------- *)
\* an RRSIG object: ptr is the identity of the object, the rest its contents
Nil == [ptr |-> <<"nil", 0, 0>>]
NoErr == "nil"
SignErr == "sign failed"

\* dns.RRSIG.ValidityPeriod(t): inception <= t <= expiration
ValidityPeriod(sig, t) == sig.incep <= t /\ t <= sig.expir

\* dns.Copy: a new object with the same contents
Copy(sig, ptr) == [sig EXCEPT !.ptr = ptr]

\* NewRRSIG followed by lines 134-138: the signature the operation builds over r;
\* data stands for the signature bytes, different for every run of the signer,
\* and over for the records sig1.Sign computed them from
NewRRSIG(r, incep, expir, n) ==
  [ptr |-> <<"sig", 0, n>>,
   over |-> r,
   name |-> r[1].name,
   covered |-> r[1].rrtype,
   ttl |-> r[1].ttl,
   origTtl |-> IF r[1].rrtype = TypeTXT THEN 0 ELSE ConfigTtl,
   incep |-> incep,
   expir |-> expir,
   data |-> n]

(* ------------------------------ byteArith ------------------------------ *)
\* the second loop (lines 269-276): from byte i leftwards, a zero byte becomes
\* 255 and the loop goes on; any other byte is decremented and the function returns
RECURSIVE decLoop(_, _)
decLoop(b, i) ==
  IF i < 1 THEN b
  ELSE IF b[i] = 0 THEN decLoop([b EXCEPT ![i] = 255], i - 1)
  ELSE [b EXCEPT ![i] = b[i] - 1]

\* the first loop (lines 260-267): a byte of 255 becomes zero and the loop goes
\* on; any other byte is incremented and the function returns. A loop that
\* runs off the left end does not return: control reaches the second loop
RECURSIVE incLoop(_, _)
incLoop(b, i) ==
  IF i < 1 THEN decLoop(b, Len(b))
  ELSE IF b[i] = 255 THEN incLoop([b EXCEPT ![i] = 0], i - 1)
  ELSE [b EXCEPT ![i] = b[i] + 1]

\* byteArith whose increment stops at the first byte it touches (no carry)
byteArithNoCarry(b, x) ==
  IF x
  THEN IF Len(b) = 0 THEN b
       ELSE [b EXCEPT ![Len(b)] = IF @ = 255 THEN 0 ELSE @ + 1]
  ELSE decLoop(b, Len(b))

\* byteArith(b, x): the buffer b after the call
byteArith(b, x) == IF x THEN incLoop(b, Len(b)) ELSE decLoop(b, Len(b))

(* ------------------------------- base32 -------------------------------- *)
\* the length of a SHA-1 digest, the hash dns.HashName is asked for
Sha1Size == 20

\* base32.HexEncoding, the alphabet 0-9A-V: the character of a 5-bit value
\* and the value of a character (-1: not in the alphabet)
encodeChar(v) == IF v < 10 THEN 48 + v ELSE 55 + v
decodeChar(c) ==
  IF c >= 48 /\ c <= 57 THEN c - 48
  ELSE IF c >= 65 /\ c <= 86 THEN c - 55
  ELSE -1

\* Encode of one quantum: 5 bytes give 8 characters
encodeQuantum(b) ==
  << encodeChar(b[1] \div 8),
     encodeChar((b[1] % 8) * 4 + b[2] \div 64),
     encodeChar((b[2] \div 2) % 32),
     encodeChar((b[2] % 2) * 16 + b[3] \div 16),
     encodeChar((b[3] % 16) * 2 + b[4] \div 128),
     encodeChar((b[4] \div 4) % 32),
     encodeChar((b[4] % 4) * 8 + b[5] \div 32),
     encodeChar(b[5] % 32) >>

\* Decode of one quantum: 8 characters give 5 bytes
decodeQuantum(t) ==
  LET c == [i \in 1..8 |-> decodeChar(t[i])]
  IN << (c[1] * 8 + c[2] \div 4) % 256,
        (c[2] * 64 + c[3] * 2 + c[4] \div 16) % 256,
        (c[4] * 16 + c[5] \div 2) % 256,
        (c[5] * 128 + c[6] * 4 + c[7] \div 8) % 256,
        (c[7] * 32 + c[8]) % 256 >>

\* unpackBase32(b): the text of the bytes b; every buffer it is handed is a
\* whole number of quanta, so the text has no padding
RECURSIVE unpackBase32(_)
unpackBase32(b) ==
  IF Len(b) < 5 THEN <<>>
  ELSE encodeQuantum(SubSeq(b, 1, 5)) \o unpackBase32(SubSeq(b, 6, Len(b)))

\* packBase32(s): the bytes of the text s; Decode stops at a quantum holding a
\* character outside the alphabet and buf[:n] keeps what was decoded before it
RECURSIVE packBase32(_)
packBase32(t) ==
  IF Len(t) < 8 THEN <<>>
  ELSE IF \E i \in 1..8 : decodeChar(t[i]) = -1 THEN <<>>
  ELSE decodeQuantum(SubSeq(t, 1, 8)) \o packBase32(SubSeq(t, 9, Len(t)))

\* strings.ToLower on a byte string
ToLower(t) == [i \in DOMAIN t |-> IF t[i] >= 65 /\ t[i] <= 90 THEN t[i] + 32 ELSE t[i]]

(* -------------------------------- state -------------------------------- *)
VARIABLES
  clock,      \* time.Now(), in hours
  cache,      \* sigCache.m: fingerprint -> stored RRSIG
  cacheLock,  \* sigCache.RWMutex: the goroutines holding it shared, and the one holding it exclusively (0: none)
  inflight,   \* single.m: fingerprint -> call record (its id)
  calls,      \* the call records: val, err, dups, and done once wg.Done() has run
  crashed,    \* the runtime has stopped the program (fatal error: concurrent map access)
  nsign,      \* number of runs of the signing primitive so far
  signedOk,   \* history: fingerprints for which a signing succeeded and whose cache entry was not removed since
  pc,         \* where each goroutine stands
  rr,         \* signSet's argument r
  now,        \* signSet's argument now (incep and expir follow from it)
  call,       \* Do's local c
  role,       \* how the call is being served: "hit", "expired" (until Do), "leader", "follower"
  res,        \* what Do returned: val, err, shared
  ret,        \* what signSet returned: sig, err
  first,      \* caller: what the first of two successive calls returned, and how
  base,       \* caller: nsign when the first of two successive calls started
  quiet,      \* history: no other goroutine was inside signSet since this one's first call started
  msg,        \* sign's argument m: the sections Answer, Ns, Extra and the Truncated flag
  orig,       \* history: m as sign received it
  sec,        \* the section sign is working on: 1 Answer, 2 Ns, 3 Extra (0: not in sign)
  sets,       \* the groups of rrSets(section) the range loop has not visited yet
  grp,        \* the group the loop is at
  failed,     \* history: the <<section, group>> whose signSet returned an error
  config,     \* s.config: Domain, MinTtl and the precomputed ClosestEncloser and DenyWildcard
  sha1,       \* SHA-1 as dns.HashName applies it: the digest of each name (a function the model does not compute)
  arith       \* a buffer handed to byteArith: as it was (b0), as it is (b), and the calls made on it (ops)

shared == <<clock, cache, cacheLock, inflight, calls, crashed, nsign, signedOk>>
locals == <<pc, rr, now, call, role, res, ret>>
caller == <<first, base, quiet>>
signv == <<msg, orig, sec, sets, grp, failed>>
nsecv == <<config, sha1, arith>>
vars == <<shared, locals, caller, signv, nsecv>>

EmptyMap == [k \in {} |-> Nil]
NoCall == [key |-> <<>>, val |-> Nil, err |-> NoErr, dups |-> 0, done |-> TRUE, execs |-> 0]
NoRes == [val |-> Nil, err |-> NoErr, shared |-> FALSE]
NoRet == [sig |-> Nil, err |-> NoErr]
NoFirst == [sig |-> Nil, role |-> "none"]
NoMsg == [Answer |-> <<>>, Ns |-> <<>>, Extra |-> <<>>, Truncated |-> FALSE,
          Rcode |-> RcodeSuccess, Question |-> <<>>]
NoGrp == <<>>
NoArith == [b0 |-> <<>>, b |-> <<>>, ops |-> <<>>]

\* the names asked for: "a." and "n."
QNameN == <<110, 46>>
QNames == {NameA, QNameN}

\* digests SHA-1 may give a name: the least and the greatest, their
\* neighbours, two whose last byte carries or borrows, and the digest of the
\* empty input
Rep(n, v) == [i \in 1..n |-> v]
Digests ==
  { Rep(Sha1Size, 0), Rep(Sha1Size - 1, 0) \o <<1>>,
    Rep(Sha1Size - 1, 0) \o <<255>>, Rep(Sha1Size - 2, 0) \o <<1, 0>>,
    Sha1Empty,
    Rep(Sha1Size - 1, 255) \o <<254>>, Rep(Sha1Size, 255) }

\* s.config.Domain: "x."
Domain == <<120, 46>>
\* an NSEC3 record as the constructors fill it in
NSEC3(name, ttl, nextDomain) ==
  RR(name, TypeNSEC3, ttl,
     [hash |-> 1, flags |-> 0, salt |-> <<>>, nextDomain |-> nextDomain, typeBitMap |-> <<>>])
\* the owner names the two precomputed records may have: a hash label in
\* lower case under the domain
OwnerOf(d) == ToLower(unpackBase32(d)) \o <<46>> \o Domain
Owners == { OwnerOf(d) : d \in {Rep(Sha1Size, 0), Sha1Empty} }
\* the configurations the server may be started with
Config(o1, o2) ==
  [Domain |-> Domain, MinTtl |-> ConfigMinTtl,
   ClosestEncloser |-> NSEC3(o1, ConfigMinTtl, unpackBase32(Rep(Sha1Size, 1))),
   DenyWildcard |-> NSEC3(o2, ConfigMinTtl, unpackBase32(Rep(Sha1Size, 2)))]
Configs == { Config(o1, o2) : o1 \in Owners, o2 \in Owners }

\* the cache, the registry and the goroutines as the program starts
InitServer ==
  /\ clock = 0
  /\ cache = EmptyMap
  /\ cacheLock = [readers |-> {}, writer |-> 0]
  /\ inflight = EmptyMap
  /\ calls = [c \in CallIds |-> NoCall]
  /\ crashed = FALSE
  /\ nsign = 0
  /\ signedOk = {}
  /\ pc = [p \in Procs |-> "idle"]
  /\ rr = [p \in Procs |-> <<>>]
  /\ now = [p \in Procs |-> 0]
  /\ call = [p \in Procs |-> 0]
  /\ role = [p \in Procs |-> "none"]
  /\ res = [p \in Procs |-> NoRes]
  /\ ret = [p \in Procs |-> NoRet]
  /\ first = [p \in Procs |-> NoFirst]
  /\ base = [p \in Procs |-> 0]
  /\ quiet = [p \in Procs |-> FALSE]
  /\ msg = [p \in Procs |-> NoMsg]
  /\ orig = [p \in Procs |-> NoMsg]
  /\ sec = [p \in Procs |-> 0]
  /\ sets = [p \in Procs |-> EmptyMap]
  /\ grp = [p \in Procs |-> NoGrp]
  /\ failed = [p \in Procs |-> {}]

\* one configuration, one hash function, no buffer under byteArith
Init ==
  /\ InitServer
  /\ config = Config(OwnerOf(Sha1Empty), OwnerOf(Sha1Empty))
  /\ sha1 = [q \in QNames |-> Sha1Empty]
  /\ arith = NoArith

\* sign, lines 82-83
Incep(t) == t - Backdate
Expir(t) == t + SignFor

\* the goroutine is not inside signSet
Outside(p) == pc[p] \in {"idle", "returned"}

\* number of records in the three sections
Records(m) == Len(m.Answer) + Len(m.Ns) + Len(m.Extra)
\* the number of signature objects the caller of signSet holds: those handed
\* to it and those sign has appended to its message
Held(p) ==
  (IF first[p].sig = Nil THEN 0 ELSE 1) + (IF ret[p].sig = Nil THEN 0 ELSE 1)
  + (Records(msg[p]) - Records(orig[p]))
\* the identity of the next object goroutine p allocates with dns.Copy
NewCopyPtr(p) == <<"copy", p, Held(p) + 1>>

MapPut(m, k, v) == [x \in DOMAIN m \cup {k} |-> IF x = k THEN v ELSE m[x]]
MapDel(m, k) == [x \in DOMAIN m \ {k} |-> m[x]]
Range(m) == {m[x] : x \in DOMAIN m}

\* time passes
Tick ==
  /\ ~crashed
  /\ \E d \in Advances :
       /\ clock + d <= MaxClock
       /\ clock' = clock + d
  /\ UNCHANGED <<cache, cacheLock, inflight, calls, crashed, nsign, signedOk>>
  /\ UNCHANGED <<locals, caller>>
  /\ UNCHANGED signv
  /\ UNCHANGED nsecv

(* ------------------------- callers of signSet -------------------------- *)
\* a goroutine calls signSet(r, now, incep, expir) with the current time
Call(p, r) ==
  /\ ~crashed
  /\ pc[p] = "idle"
  /\ pc' = [pc EXCEPT ![p] = "search"]
  /\ rr' = [rr EXCEPT ![p] = r]
  /\ now' = [now EXCEPT ![p] = clock]
  /\ base' = [base EXCEPT ![p] = nsign]
  /\ quiet' = [q \in Procs |-> IF q = p THEN \A o \in Procs \ {p} : Outside(o) ELSE FALSE]
  /\ UNCHANGED <<shared, call, role, res, ret, first>>
  /\ UNCHANGED signv
  /\ UNCHANGED nsecv

\* the caller keeps the signature it got and calls signSet for the same RRset
\* a second time, at the time it is by then
CallAgain(p) ==
  /\ ~crashed
  /\ pc[p] = "returned"
  /\ first[p] = NoFirst
  /\ ret[p].err = NoErr
  /\ first' = [first EXCEPT ![p] = [sig |-> ret[p].sig, role |-> role[p]]]
  /\ ret' = [ret EXCEPT ![p] = NoRet]
  /\ role' = [role EXCEPT ![p] = "none"]
  /\ pc' = [pc EXCEPT ![p] = "search"]
  /\ now' = [now EXCEPT ![p] = clock]
  /\ quiet' = [q \in Procs |-> IF q = p THEN quiet[p] ELSE FALSE]
  /\ UNCHANGED <<shared, rr, call, res, base>>
  /\ UNCHANGED signv
  /\ UNCHANGED nsecv

\* writing through the pointer ptr changes every holder of that object
Written(s, ptr) == IF s.ptr = ptr /\ s # Nil THEN [s EXCEPT !.ttl = 0] ELSE s

\* the caller changes the Ttl of the signature it was handed (as when it
\* adjusts the record before putting it in a reply)
Mutate(p) ==
  /\ ~crashed
  /\ pc[p] = "returned"
  /\ ret[p].sig # Nil
  /\ ret[p].sig.ttl # 0
  /\ LET ptr == ret[p].sig.ptr IN
       /\ cache' = [k \in DOMAIN cache |-> Written(cache[k], ptr)]
       /\ calls' = [c \in CallIds |-> [calls[c] EXCEPT !.val = Written(@, ptr)]]
       /\ res' = [q \in Procs |-> [res[q] EXCEPT !.val = Written(@, ptr)]]
       /\ ret' = [q \in Procs |-> [ret[q] EXCEPT !.sig = Written(@, ptr)]]
       /\ first' = [q \in Procs |-> [first[q] EXCEPT !.sig = Written(@, ptr)]]
  /\ UNCHANGED <<clock, cacheLock, inflight, crashed, nsign, signedOk>>
  /\ UNCHANGED <<pc, rr, now, call, role, base, quiet>>
  /\ UNCHANGED signv
  /\ UNCHANGED nsecv

\* the caller drops what it got
Finish(p) ==
  /\ ~crashed
  /\ pc[p] = "returned"
  /\ pc' = [pc EXCEPT ![p] = "idle"]
  /\ rr' = [rr EXCEPT ![p] = <<>>]
  /\ now' = [now EXCEPT ![p] = 0]
  /\ role' = [role EXCEPT ![p] = "none"]
  /\ ret' = [ret EXCEPT ![p] = NoRet]
  /\ first' = [first EXCEPT ![p] = NoFirst]
  /\ base' = [base EXCEPT ![p] = 0]
  /\ quiet' = [quiet EXCEPT ![p] = FALSE]
  /\ UNCHANGED <<shared, call, res>>
  /\ UNCHANGED signv
  /\ UNCHANGED nsecv

(* ---------------------- signSet: the cache lookup ---------------------- *)
\* sigCache.search: c.RLock()
SearchRLock(p) ==
  /\ ~crashed
  /\ pc[p] = "search"
  /\ cacheLock.writer = 0
  /\ cacheLock' = [cacheLock EXCEPT !.readers = @ \cup {p}]
  /\ pc' = [pc EXCEPT ![p] = "rlocked"]
  /\ UNCHANGED <<clock, cache, inflight, calls, crashed, nsign, signedOk>>
  /\ UNCHANGED <<rr, now, call, role, res, ret, caller>>
  /\ UNCHANGED signv
  /\ UNCHANGED nsecv

\* SearchHit with the validity checked at now instead of now + 24 hours
SearchHitNoLookahead(p) ==
  /\ ~crashed
  /\ pc[p] = "rlocked"
  /\ key(rr[p]) \in DOMAIN cache
  /\ ValidityPeriod(cache[key(rr[p])], now[p])
  /\ ret' = [ret EXCEPT ![p] = [sig |-> Copy(cache[key(rr[p])], NewCopyPtr(p)),
                                err |-> NoErr]]
  /\ role' = [role EXCEPT ![p] = "hit"]
  /\ cacheLock' = [cacheLock EXCEPT !.readers = @ \ {p}]
  /\ pc' = [pc EXCEPT ![p] = "returned"]
  /\ UNCHANGED <<clock, cache, inflight, calls, crashed, nsign, signedOk>>
  /\ UNCHANGED <<rr, now, call, res, caller>>
  /\ UNCHANGED signv
  /\ UNCHANGED nsecv

\* SearchHit handing out the stored object instead of a copy of it
SearchHitStored(p) ==
  /\ ~crashed
  /\ pc[p] = "rlocked"
  /\ key(rr[p]) \in DOMAIN cache
  /\ ValidityPeriod(cache[key(rr[p])], now[p] + Lookahead)
  /\ ret' = [ret EXCEPT ![p] = [sig |-> cache[key(rr[p])], err |-> NoErr]]
  /\ role' = [role EXCEPT ![p] = "hit"]
  /\ cacheLock' = [cacheLock EXCEPT !.readers = @ \ {p}]
  /\ pc' = [pc EXCEPT ![p] = "returned"]
  /\ UNCHANGED <<clock, cache, inflight, calls, crashed, nsign, signedOk>>
  /\ UNCHANGED <<rr, now, call, res, caller>>
  /\ UNCHANGED signv
  /\ UNCHANGED nsecv

\* search finds an entry and copies it, RUnlock; the copy is valid 24 hours
\* from now: signSet returns it
SearchHit(p) ==
  /\ ~crashed
  /\ pc[p] = "rlocked"
  /\ key(rr[p]) \in DOMAIN cache
  /\ ValidityPeriod(cache[key(rr[p])], now[p] + Lookahead)
  /\ ret' = [ret EXCEPT ![p] = [sig |-> Copy(cache[key(rr[p])], NewCopyPtr(p)),
                                err |-> NoErr]]
  /\ role' = [role EXCEPT ![p] = "hit"]
  /\ cacheLock' = [cacheLock EXCEPT !.readers = @ \ {p}]
  /\ pc' = [pc EXCEPT ![p] = "returned"]
  /\ UNCHANGED <<clock, cache, inflight, calls, crashed, nsign, signedOk>>
  /\ UNCHANGED <<rr, now, call, res, caller>>
  /\ UNCHANGED signv
  /\ UNCHANGED nsecv

\* search finds an entry and copies it, RUnlock; the copy is not valid 24
\* hours from now: signSet goes on to cache.remove
SearchExpired(p) ==
  /\ ~crashed
  /\ pc[p] = "rlocked"
  /\ key(rr[p]) \in DOMAIN cache
  /\ ~ValidityPeriod(cache[key(rr[p])], now[p] + Lookahead)
  /\ role' = [role EXCEPT ![p] = "expired"]
  /\ cacheLock' = [cacheLock EXCEPT !.readers = @ \ {p}]
  /\ pc' = [pc EXCEPT ![p] = "remove"]
  /\ UNCHANGED <<clock, cache, inflight, calls, crashed, nsign, signedOk>>
  /\ UNCHANGED <<rr, now, call, res, ret, caller>>
  /\ UNCHANGED signv
  /\ UNCHANGED nsecv

\* search finds no entry, RUnlock: signSet goes on to the miss path
SearchMiss(p) ==
  /\ ~crashed
  /\ pc[p] = "rlocked"
  /\ key(rr[p]) \notin DOMAIN cache
  /\ cacheLock' = [cacheLock EXCEPT !.readers = @ \ {p}]
  /\ pc' = [pc EXCEPT ![p] = "miss"]
  /\ UNCHANGED <<clock, cache, inflight, calls, crashed, nsign, signedOk>>
  /\ UNCHANGED <<rr, now, call, role, res, ret, caller>>
  /\ UNCHANGED signv
  /\ UNCHANGED nsecv

\* another goroutine is inside an access to the cache map: remove, which takes
\* no lock, races with it
Racy(p) ==
  \E q \in Procs \ {p} :
    q \in cacheLock.readers \/ cacheLock.writer = q \/ pc[q] = "remove"

\* sigCache.remove: delete(c.m, s), without the lock
Remove(p) ==
  /\ ~crashed
  /\ pc[p] = "remove"
  /\ cache' = MapDel(cache, key(rr[p]))
  /\ signedOk' = signedOk \ {key(rr[p])}
  /\ pc' = [pc EXCEPT ![p] = "miss"]
  /\ UNCHANGED <<clock, cacheLock, inflight, calls, crashed, nsign>>
  /\ UNCHANGED <<rr, now, call, role, res, ret, caller>>
  /\ UNCHANGED signv
  /\ UNCHANGED nsecv

\* the other outcome of the racing delete: the runtime detects the concurrent
\* map access and stops the program
RemoveCrash(p) ==
  /\ ~crashed
  /\ pc[p] = "remove"
  /\ Racy(p)
  /\ crashed' = TRUE
  /\ UNCHANGED <<clock, cache, cacheLock, inflight, calls, nsign, signedOk>>
  /\ UNCHANGED <<locals, caller>>
  /\ UNCHANGED signv
  /\ UNCHANGED nsecv

(* --------------------------- single.Do --------------------------------- *)
\* new(call): a call record no goroutine and no registry entry refers to
NewCallId == CHOOSE c \in CallIds : calls[c] = NoCall /\ \A d \in CallIds : calls[d] = NoCall => c <= d

\* DoLead without the lookup in the registry: the caller registers a call
\* record whether the key has one or not
DoLeadUnchecked(p) ==
  /\ ~crashed
  /\ pc[p] = "miss"
  /\ LET c == NewCallId IN
       /\ calls' = [calls EXCEPT ![c] = [key |-> key(rr[p]), val |-> Nil, err |-> NoErr,
                                         dups |-> 0, done |-> FALSE, execs |-> 0]]
       /\ inflight' = MapPut(inflight, key(rr[p]), c)
       /\ call' = [call EXCEPT ![p] = c]
  /\ role' = [role EXCEPT ![p] = "leader"]
  /\ pc' = [pc EXCEPT ![p] = "fn"]
  /\ UNCHANGED <<clock, cache, cacheLock, crashed, nsign, signedOk>>
  /\ UNCHANGED <<rr, now, res, ret, caller>>
  /\ UNCHANGED signv
  /\ UNCHANGED nsecv

\* lines 385-398, no entry for the key: the caller registers a call record
\* and becomes the leader
DoLead(p) ==
  /\ ~crashed
  /\ pc[p] = "miss"
  /\ key(rr[p]) \notin DOMAIN inflight
  /\ LET c == NewCallId IN
       /\ calls' = [calls EXCEPT ![c] = [key |-> key(rr[p]), val |-> Nil, err |-> NoErr,
                                         dups |-> 0, done |-> FALSE, execs |-> 0]]
       /\ inflight' = MapPut(inflight, key(rr[p]), c)
       /\ call' = [call EXCEPT ![p] = c]
  /\ role' = [role EXCEPT ![p] = "leader"]
  /\ pc' = [pc EXCEPT ![p] = "fn"]
  /\ UNCHANGED <<clock, cache, cacheLock, crashed, nsign, signedOk>>
  /\ UNCHANGED <<rr, now, res, ret, caller>>
  /\ UNCHANGED signv
  /\ UNCHANGED nsecv

\* lines 385-391, an entry for the key: the caller counts itself in dups and
\* becomes a follower
DoFollow(p) ==
  /\ ~crashed
  /\ pc[p] = "miss"
  /\ key(rr[p]) \in DOMAIN inflight
  /\ LET c == inflight[key(rr[p])] IN
       /\ calls[c].dups < MaxDups
       /\ calls' = [calls EXCEPT ![c].dups = @ + 1]
       /\ call' = [call EXCEPT ![p] = c]
  /\ role' = [role EXCEPT ![p] = "follower"]
  /\ pc' = [pc EXCEPT ![p] = "wait"]
  /\ UNCHANGED <<clock, cache, cacheLock, inflight, crashed, nsign, signedOk>>
  /\ UNCHANGED <<rr, now, res, ret, caller>>
  /\ UNCHANGED signv
  /\ UNCHANGED nsecv

\* lines 400-401, the operation of signSet (lines 133-142): sig1.Sign succeeds;
\* the leader stores the outcome and calls c.wg.Done()
SignOk(p) ==
  /\ ~crashed
  /\ pc[p] = "fn"
  /\ nsign < MaxSigns
  /\ nsign' = nsign + 1
  /\ calls' = [calls EXCEPT ![call[p]] =
                 [@ EXCEPT !.val = NewRRSIG(rr[p], Incep(now[p]), Expir(now[p]), nsign + 1),
                           !.err = NoErr,
                           !.done = TRUE,
                           !.execs = @ + 1]]
  /\ signedOk' = signedOk \cup {key(rr[p])}
  /\ pc' = [pc EXCEPT ![p] = "unreg"]
  /\ UNCHANGED <<clock, cache, cacheLock, inflight, crashed>>
  /\ UNCHANGED <<rr, now, call, role, res, ret, caller>>
  /\ UNCHANGED signv
  /\ UNCHANGED nsecv

\* SignFail that returns before c.wg.Done()
SignFailNoDone(p) ==
  /\ ~crashed
  /\ pc[p] = "fn"
  /\ nsign < MaxSigns
  /\ nsign' = nsign + 1
  /\ calls' = [calls EXCEPT ![call[p]] =
                 [@ EXCEPT !.val = [NewRRSIG(rr[p], Incep(now[p]), Expir(now[p]), nsign + 1)
                                      EXCEPT !.data = 0],
                           !.err = SignErr,
                           !.execs = @ + 1]]
  /\ pc' = [pc EXCEPT ![p] = "unreg"]
  /\ UNCHANGED <<clock, cache, cacheLock, inflight, crashed, signedOk>>
  /\ UNCHANGED <<rr, now, call, role, res, ret, caller>>
  /\ UNCHANGED signv
  /\ UNCHANGED nsecv

\* lines 400-401, the operation of signSet: sig1.Sign fails; the operation
\* returns the unsigned sig1 and the error, the leader stores them and calls
\* c.wg.Done()
SignFail(p) ==
  /\ ~crashed
  /\ pc[p] = "fn"
  /\ nsign < MaxSigns
  /\ nsign' = nsign + 1
  /\ calls' = [calls EXCEPT ![call[p]] =
                 [@ EXCEPT !.val = [NewRRSIG(rr[p], Incep(now[p]), Expir(now[p]), nsign + 1)
                                      EXCEPT !.data = 0],
                           !.err = SignErr,
                           !.done = TRUE,
                           !.execs = @ + 1]]
  /\ pc' = [pc EXCEPT ![p] = "unreg"]
  /\ UNCHANGED <<clock, cache, cacheLock, inflight, crashed, signedOk>>
  /\ UNCHANGED <<rr, now, call, role, res, ret, caller>>
  /\ UNCHANGED signv
  /\ UNCHANGED nsecv

\* lines 403-407: the leader deregisters the call record and has its return
\* values: c.val, c.err, c.dups > 0
Unregister(p) ==
  /\ ~crashed
  /\ pc[p] = "unreg"
  /\ inflight' = MapDel(inflight, key(rr[p]))
  /\ res' = [res EXCEPT ![p] = [val |-> calls[call[p]].val, err |-> calls[call[p]].err,
                                shared |-> calls[call[p]].dups > 0]]
  /\ pc' = [pc EXCEPT ![p] = "do_ret"]
  /\ UNCHANGED <<clock, cache, cacheLock, calls, crashed, nsign, signedOk>>
  /\ UNCHANGED <<rr, now, call, role, ret, caller>>
  /\ UNCHANGED signv
  /\ UNCHANGED nsecv

\* Wait that does not block until the leader has called Done
WaitWithoutDone(p) ==
  /\ ~crashed
  /\ pc[p] = "wait"
  /\ res' = [res EXCEPT ![p] = [val |-> calls[call[p]].val, err |-> calls[call[p]].err,
                                shared |-> TRUE]]
  /\ pc' = [pc EXCEPT ![p] = "do_ret"]
  /\ UNCHANGED <<clock, cache, cacheLock, inflight, calls, crashed, nsign, signedOk>>
  /\ UNCHANGED <<rr, now, call, role, ret, caller>>
  /\ UNCHANGED signv
  /\ UNCHANGED nsecv

\* lines 392-393: c.wg.Wait() returns once the leader has called Done; the
\* follower has its return values: c.val, c.err, true
Wait(p) ==
  /\ ~crashed
  /\ pc[p] = "wait"
  /\ calls[call[p]].done
  /\ res' = [res EXCEPT ![p] = [val |-> calls[call[p]].val, err |-> calls[call[p]].err,
                                shared |-> TRUE]]
  /\ pc' = [pc EXCEPT ![p] = "do_ret"]
  /\ UNCHANGED <<clock, cache, cacheLock, inflight, calls, crashed, nsign, signedOk>>
  /\ UNCHANGED <<rr, now, call, role, ret, caller>>
  /\ UNCHANGED signv
  /\ UNCHANGED nsecv

\* Do has returned: its local c is gone, and the call record with it once no
\* other goroutine and no registry entry refers to it
Released(p) ==
  [c \in CallIds |->
     IF c = call[p] /\ c \notin Range(inflight) /\ \A q \in Procs \ {p} : call[q] # c
     THEN NoCall ELSE calls[c]]

(* ------------------- signSet: after Do, lines 144-150 ------------------ *)
\* the error test put after the insert: the unsigned sig1 goes into the cache
AfterDoErrCached(p) ==
  /\ ~crashed
  /\ pc[p] = "do_ret"
  /\ res[p].err # NoErr
  /\ cache' = IF key(rr[p]) \in DOMAIN cache THEN cache
              ELSE MapPut(cache, key(rr[p]), res[p].val)
  /\ ret' = [ret EXCEPT ![p] = [sig |-> Nil, err |-> res[p].err]]
  /\ res' = [res EXCEPT ![p] = NoRes]
  /\ calls' = Released(p)
  /\ call' = [call EXCEPT ![p] = 0]
  /\ pc' = [pc EXCEPT ![p] = "returned"]
  /\ UNCHANGED <<clock, cacheLock, inflight, crashed, nsign, signedOk>>
  /\ UNCHANGED <<rr, now, role, caller>>
  /\ UNCHANGED signv
  /\ UNCHANGED nsecv

\* err != nil: return nil, err
AfterDoErr(p) ==
  /\ ~crashed
  /\ pc[p] = "do_ret"
  /\ res[p].err # NoErr
  /\ ret' = [ret EXCEPT ![p] = [sig |-> Nil, err |-> res[p].err]]
  /\ res' = [res EXCEPT ![p] = NoRes]
  /\ calls' = Released(p)
  /\ call' = [call EXCEPT ![p] = 0]
  /\ pc' = [pc EXCEPT ![p] = "returned"]
  /\ UNCHANGED <<clock, cache, cacheLock, inflight, crashed, nsign, signedOk>>
  /\ UNCHANGED <<rr, now, role, caller>>
  /\ UNCHANGED signv
  /\ UNCHANGED nsecv

\* err == nil and !shared: go on to cache.insert
AfterDoInsert(p) ==
  /\ ~crashed
  /\ pc[p] = "do_ret"
  /\ res[p].err = NoErr
  /\ ~res[p].shared
  /\ calls' = Released(p)
  /\ call' = [call EXCEPT ![p] = 0]
  /\ pc' = [pc EXCEPT ![p] = "insert"]
  /\ UNCHANGED <<clock, cache, cacheLock, inflight, crashed, nsign, signedOk>>
  /\ UNCHANGED <<rr, now, role, res, ret, caller>>
  /\ UNCHANGED signv
  /\ UNCHANGED nsecv

\* err == nil and shared: no insert; return dns.Copy(sig), nil
AfterDoShared(p) ==
  /\ ~crashed
  /\ pc[p] = "do_ret"
  /\ res[p].err = NoErr
  /\ res[p].shared
  /\ ret' = [ret EXCEPT ![p] = [sig |-> Copy(res[p].val, NewCopyPtr(p)), err |-> NoErr]]
  /\ res' = [res EXCEPT ![p] = NoRes]
  /\ calls' = Released(p)
  /\ call' = [call EXCEPT ![p] = 0]
  /\ pc' = [pc EXCEPT ![p] = "returned"]
  /\ UNCHANGED <<clock, cache, cacheLock, inflight, crashed, nsign, signedOk>>
  /\ UNCHANGED <<rr, now, role, caller>>
  /\ UNCHANGED signv
  /\ UNCHANGED nsecv

\* sigCache.insert: c.Lock()
InsertLock(p) ==
  /\ ~crashed
  /\ pc[p] = "insert"
  /\ cacheLock.writer = 0
  /\ cacheLock.readers = {}
  /\ cacheLock' = [cacheLock EXCEPT !.writer = p]
  /\ pc' = [pc EXCEPT ![p] = "wlocked"]
  /\ UNCHANGED <<clock, cache, inflight, calls, crashed, nsign, signedOk>>
  /\ UNCHANGED <<rr, now, call, role, res, ret, caller>>
  /\ UNCHANGED signv
  /\ UNCHANGED nsecv

\* insert that stores r whether or not the fingerprint has an entry
InsertOverwrite(p) ==
  /\ ~crashed
  /\ pc[p] = "wlocked"
  /\ cache' = MapPut(cache, key(rr[p]), res[p].val)
  /\ cacheLock' = [cacheLock EXCEPT !.writer = 0]
  /\ ret' = [ret EXCEPT ![p] = [sig |-> Copy(res[p].val, NewCopyPtr(p)), err |-> NoErr]]
  /\ res' = [res EXCEPT ![p] = NoRes]
  /\ pc' = [pc EXCEPT ![p] = "returned"]
  /\ UNCHANGED <<clock, inflight, calls, crashed, nsign, signedOk>>
  /\ UNCHANGED <<rr, now, call, role, caller>>
  /\ UNCHANGED signv
  /\ UNCHANGED nsecv

\* insert with the test inverted: it stores r only over an existing entry
InsertIfPresent(p) ==
  /\ ~crashed
  /\ pc[p] = "wlocked"
  /\ cache' = IF key(rr[p]) \in DOMAIN cache THEN MapPut(cache, key(rr[p]), res[p].val)
              ELSE cache
  /\ cacheLock' = [cacheLock EXCEPT !.writer = 0]
  /\ ret' = [ret EXCEPT ![p] = [sig |-> Copy(res[p].val, NewCopyPtr(p)), err |-> NoErr]]
  /\ res' = [res EXCEPT ![p] = NoRes]
  /\ pc' = [pc EXCEPT ![p] = "returned"]
  /\ UNCHANGED <<clock, inflight, calls, crashed, nsign, signedOk>>
  /\ UNCHANGED <<rr, now, call, role, caller>>
  /\ UNCHANGED signv
  /\ UNCHANGED nsecv

\* sigCache.insert: store r unless the fingerprint has an entry, c.Unlock();
\* then line 150: return dns.Copy(sig), nil
InsertWrite(p) ==
  /\ ~crashed
  /\ pc[p] = "wlocked"
  /\ cache' = IF key(rr[p]) \in DOMAIN cache THEN cache
              ELSE MapPut(cache, key(rr[p]), res[p].val)
  /\ cacheLock' = [cacheLock EXCEPT !.writer = 0]
  /\ ret' = [ret EXCEPT ![p] = [sig |-> Copy(res[p].val, NewCopyPtr(p)), err |-> NoErr]]
  /\ res' = [res EXCEPT ![p] = NoRes]
  /\ pc' = [pc EXCEPT ![p] = "returned"]
  /\ UNCHANGED <<clock, inflight, calls, crashed, nsign, signedOk>>
  /\ UNCHANGED <<rr, now, call, role, caller>>
  /\ UNCHANGED signv
  /\ UNCHANGED nsecv

(* ------------------------------- rrSets -------------------------------- *)
\* the loop of rrSets: a record joins the group of its (owner, type), or
\* starts it
RECURSIVE rrSetsInto(_, _)
rrSetsInto(m, rrs) ==
  IF rrs = <<>> THEN m
  ELSE LET r == Head(rrs)
           g == <<r.name, r.rrtype>>
       IN rrSetsInto(IF g \in DOMAIN m THEN [m EXCEPT ![g] = Append(@, r)]
                     ELSE MapPut(m, g, <<r>>),
                     Tail(rrs))

\* rrSets(rrs); the nil it returns for no group ranges like the empty map
rrSets(rrs) == rrSetsInto([g \in {} |-> <<>>], rrs)

(* -------------------------------- sign --------------------------------- *)
\* the messages handed to sign
Msgs ==
  { [Answer |-> <<RecA1, RecOldSig, RecA2>>, Ns |-> <<RecSrv80>>, Extra |-> <<RecSrv81>>,
     Truncated |-> FALSE, Rcode |-> RcodeSuccess, Question |-> <<[Name |-> NameA]>>],
    [Answer |-> <<RecSrv80, RecSrv80>>, Ns |-> <<>>, Extra |-> <<RecTxt>>,
     Truncated |-> FALSE, Rcode |-> RcodeSuccess, Question |-> <<[Name |-> NameA]>>],
    [Answer |-> <<RecOldSig>>, Ns |-> <<>>, Extra |-> <<RecTxt>>,
     Truncated |-> FALSE, Rcode |-> RcodeSuccess, Question |-> <<[Name |-> NameA]>>] }
\* the buffer sizes handed to sign, and dns.Msg.Len, both counted in records
Bufsizes == {4, 8}
MsgLen(m) == Records(m)

\* the section sec of m
Section(m, i) == IF i = 1 THEN m.Answer ELSE IF i = 2 THEN m.Ns ELSE m.Extra
\* m with rec appended to section sec
Appended(m, i, rec) ==
  IF i = 1 THEN [m EXCEPT !.Answer = Append(@, rec)]
  ELSE IF i = 2 THEN [m EXCEPT !.Ns = Append(@, rec)]
  ELSE [m EXCEPT !.Extra = Append(@, rec)]
\* a signature as a record of a section
SigRR(sg) == RR(sg.name, TypeRRSIG, sg.ttl, sg)

\* lines 81-85: sign takes the time and ranges over rrSets(m.Answer)
SignStart(p, m) ==
  /\ ~crashed
  /\ pc[p] = "idle"
  /\ msg' = [msg EXCEPT ![p] = m]
  /\ orig' = [orig EXCEPT ![p] = m]
  /\ now' = [now EXCEPT ![p] = clock]
  /\ sec' = [sec EXCEPT ![p] = 1]
  /\ sets' = [sets EXCEPT ![p] = rrSets(m.Answer)]
  /\ pc' = [pc EXCEPT ![p] = "loop"]
  /\ UNCHANGED <<shared, rr, call, role, res, ret, caller, grp, failed>>
  /\ UNCHANGED nsecv

\* lines 86-88: the loop comes to a group of RRSIGs (in any order: the
\* groups are a Go map) and skips it
SignSkip(p) ==
  /\ ~crashed
  /\ pc[p] = "loop"
  /\ \E g \in DOMAIN sets[p] :
       /\ sets[p][g][1].rrtype = TypeRRSIG
       /\ sets' = [sets EXCEPT ![p] = MapDel(@, g)]
  /\ UNCHANGED <<shared, locals, caller, msg, orig, sec, grp, failed>>
  /\ UNCHANGED nsecv

\* SignCall without the test for RRSIG: every group is signed
SignCallAny(p) ==
  /\ ~crashed
  /\ pc[p] = "loop"
  /\ \E g \in DOMAIN sets[p] :
       /\ grp' = [grp EXCEPT ![p] = g]
       /\ rr' = [rr EXCEPT ![p] = sets[p][g]]
  /\ role' = [role EXCEPT ![p] = "none"]
  /\ pc' = [pc EXCEPT ![p] = "search"]
  /\ UNCHANGED <<shared, now, call, res, ret, caller, msg, orig, sec, sets, failed>>
  /\ UNCHANGED nsecv

\* line 89: the loop comes to another group and calls signSet for it
SignCall(p) ==
  /\ ~crashed
  /\ pc[p] = "loop"
  /\ \E g \in DOMAIN sets[p] :
       /\ sets[p][g][1].rrtype # TypeRRSIG
       /\ grp' = [grp EXCEPT ![p] = g]
       /\ rr' = [rr EXCEPT ![p] = sets[p][g]]
  /\ role' = [role EXCEPT ![p] = "none"]
  /\ pc' = [pc EXCEPT ![p] = "search"]
  /\ UNCHANGED <<shared, now, call, res, ret, caller, msg, orig, sec, sets, failed>>
  /\ UNCHANGED nsecv

\* lines 89-91: signSet returned a signature; sign appends it to the section
SignAppend(p) ==
  /\ ~crashed
  /\ pc[p] = "returned"
  /\ sec[p] # 0
  /\ ret[p].err = NoErr
  /\ msg' = [msg EXCEPT ![p] = Appended(@, sec[p], SigRR(ret[p].sig))]
  /\ sets' = [sets EXCEPT ![p] = MapDel(@, grp[p])]
  /\ grp' = [grp EXCEPT ![p] = NoGrp]
  /\ ret' = [ret EXCEPT ![p] = NoRet]
  /\ rr' = [rr EXCEPT ![p] = <<>>]
  /\ pc' = [pc EXCEPT ![p] = "loop"]
  /\ UNCHANGED <<shared, now, call, role, res, caller, orig, sec, failed>>
  /\ UNCHANGED nsecv

\* line 89: signSet returned an error; sign appends nothing and goes on
SignUnsigned(p) ==
  /\ ~crashed
  /\ pc[p] = "returned"
  /\ sec[p] # 0
  /\ ret[p].err # NoErr
  /\ failed' = [failed EXCEPT ![p] = @ \cup {<<sec[p], grp[p]>>}]
  /\ sets' = [sets EXCEPT ![p] = MapDel(@, grp[p])]
  /\ grp' = [grp EXCEPT ![p] = NoGrp]
  /\ ret' = [ret EXCEPT ![p] = NoRet]
  /\ rr' = [rr EXCEPT ![p] = <<>>]
  /\ pc' = [pc EXCEPT ![p] = "loop"]
  /\ UNCHANGED <<shared, now, call, role, res, caller, msg, orig, sec>>
  /\ UNCHANGED nsecv

\* lines 93, 101: the loop over a section is over; sign ranges over the
\* rrSets of the next section
SignNextSection(p) ==
  /\ ~crashed
  /\ pc[p] = "loop"
  /\ sets[p] = EmptyMap
  /\ sec[p] < 3
  /\ sec' = [sec EXCEPT ![p] = @ + 1]
  /\ sets' = [sets EXCEPT ![p] = rrSets(Section(msg[p], sec[p] + 1))]
  /\ UNCHANGED <<shared, locals, caller, msg, orig, grp, failed>>
  /\ UNCHANGED nsecv

\* lines 109-118: all three loops are over; sign sets Truncated (the test on
\* bufsize holds for every bufsize) and appends the OPT record to Extra
SignFinish(p, bufsize) ==
  /\ ~crashed
  /\ pc[p] = "loop"
  /\ sets[p] = EmptyMap
  /\ sec[p] = 3
  /\ msg' = [msg EXCEPT ![p] = [@ EXCEPT !.Truncated = MsgLen(msg[p]) > bufsize,
                                         !.Extra = Append(@, RecOpt)]]
  /\ pc' = [pc EXCEPT ![p] = "signed"]
  /\ UNCHANGED <<shared, rr, now, call, role, res, ret, caller, orig, sec, sets, grp, failed>>
  /\ UNCHANGED nsecv

\* the caller of sign sends the message off
SignDone(p) ==
  /\ ~crashed
  /\ pc[p] = "signed"
  /\ pc' = [pc EXCEPT ![p] = "idle"]
  /\ now' = [now EXCEPT ![p] = 0]
  /\ role' = [role EXCEPT ![p] = "none"]
  /\ msg' = [msg EXCEPT ![p] = NoMsg]
  /\ orig' = [orig EXCEPT ![p] = NoMsg]
  /\ sec' = [sec EXCEPT ![p] = 0]
  /\ failed' = [failed EXCEPT ![p] = {}]
  /\ UNCHANGED <<shared, rr, call, res, ret, caller, sets, grp>>
  /\ UNCHANGED nsecv

(* ------------------------- NSEC3 and Denial ---------------------------- *)
\* dns.HashName(qname, dns.SHA1, 0, ""): the digest of the name as base32 text
HashName(qname) == unpackBase32(sha1[qname])

\* NewNSEC3NameError with one byteArith(buf, true) instead of two
NewNSEC3NameErrorOneNext(qname) ==
  LET buf == packBase32(HashName(qname))
      before == byteArith(buf, FALSE)
      after == byteArith(before, TRUE)
  IN NSEC3(ToLower(unpackBase32(before)) \o <<46>> \o config.Domain, config.MinTtl,
           unpackBase32(after))

\* NewNSEC3NameError without the byteArith(buf, false)
NewNSEC3NameErrorNoBefore(qname) ==
  LET buf == packBase32(HashName(qname))
      after == byteArith(byteArith(buf, TRUE), TRUE)
  IN NSEC3(ToLower(unpackBase32(buf)) \o <<46>> \o config.Domain, config.MinTtl,
           unpackBase32(after))

\* NewNSEC3NameError(qname): the buffer is decremented for the owner name and
\* then, as it stands, incremented twice for the next hashed owner name
NewNSEC3NameError(qname) ==
  LET buf == packBase32(HashName(qname))
      before == byteArith(buf, FALSE)
      after == byteArith(byteArith(before, TRUE), TRUE)
  IN NSEC3(ToLower(unpackBase32(before)) \o <<46>> \o config.Domain, config.MinTtl,
           unpackBase32(after))

\* NewNSEC3NoData(qname): the owner is the hash as HashName writes it
NewNSEC3NoData(qname) ==
  LET name == HashName(qname)
      buf == byteArith(packBase32(name), TRUE)
  IN NSEC3(name \o <<46>> \o config.Domain, config.MinTtl, unpackBase32(buf))

\* Denial without the closest-encloser and wildcard tests: both are appended
DenialAlwaysBoth(m) ==
  LET nsec3 == NewNSEC3NameError(m.Question[1].Name)
      ns1 == IF m.Rcode = RcodeNameError
             THEN m.Ns \o <<nsec3, config.ClosestEncloser, config.DenyWildcard>>
             ELSE m.Ns
      ns2 == IF m.Rcode = RcodeSuccess /\ Len(ns1) = 1 /\ ns1[1].rrtype = TypeSOA
             THEN Append(ns1, NewNSEC3NoData(m.Question[1].Name))
             ELSE ns1
  IN [m EXCEPT !.Ns = ns2]

\* Denial without the test for an SOA
DenialAnyRecord(m) ==
  LET nsec3 == NewNSEC3NameError(m.Question[1].Name)
      withCE == IF nsec3.name # config.ClosestEncloser.name
                THEN <<nsec3, config.ClosestEncloser>> ELSE <<nsec3>>
      withDW == IF nsec3.name # config.DenyWildcard.name
                THEN Append(withCE, config.DenyWildcard) ELSE withCE
      ns1 == IF m.Rcode = RcodeNameError THEN m.Ns \o withDW ELSE m.Ns
      ns2 == IF m.Rcode = RcodeSuccess /\ Len(ns1) = 1
             THEN Append(ns1, NewNSEC3NoData(m.Question[1].Name))
             ELSE ns1
  IN [m EXCEPT !.Ns = ns2]

\* Denial(m): the message after the call
Denial(m) ==
  LET nsec3 == NewNSEC3NameError(m.Question[1].Name)
      withCE == IF nsec3.name # config.ClosestEncloser.name
                THEN <<nsec3, config.ClosestEncloser>> ELSE <<nsec3>>
      withDW == IF nsec3.name # config.DenyWildcard.name
                THEN Append(withCE, config.DenyWildcard) ELSE withCE
      ns1 == IF m.Rcode = RcodeNameError THEN m.Ns \o withDW ELSE m.Ns
      ns2 == IF m.Rcode = RcodeSuccess /\ Len(ns1) = 1 /\ ns1[1].rrtype = TypeSOA
             THEN Append(ns1, NewNSEC3NoData(m.Question[1].Name))
             ELSE ns1
  IN [m EXCEPT !.Ns = ns2]

\* the replies handed to Denial: any result code (2 is a server failure), an
\* authority section that is empty, one SOA, one other record or two records
RecSoa == RR(Domain, TypeSOA, 60, [serial |-> 1])
DenialMsgs ==
  { [Answer |-> a, Ns |-> ns, Extra |-> <<RecTxt>>, Truncated |-> FALSE,
     Rcode |-> rc, Question |-> <<[Name |-> q]>>] :
    a \in {<<>>, <<RecA1>>},
    ns \in {<<>>, <<RecSoa>>, <<RecA1>>, <<RecSoa, RecSoa>>},
    rc \in {RcodeSuccess, RcodeNameError, 2},
    q \in QNames }

\* the server has a reply m to a query with the DNSSEC bit and calls Denial
DenialStart(p, m) ==
  /\ ~crashed
  /\ pc[p] = "idle"
  /\ msg' = [msg EXCEPT ![p] = m]
  /\ orig' = [orig EXCEPT ![p] = m]
  /\ pc' = [pc EXCEPT ![p] = "denial"]
  /\ UNCHANGED <<shared, rr, now, call, role, res, ret, caller, sec, sets, grp, failed>>
  /\ UNCHANGED nsecv

\* lines 52-71
DenialRun(p) ==
  /\ ~crashed
  /\ pc[p] = "denial"
  /\ msg' = [msg EXCEPT ![p] = Denial(@)]
  /\ pc' = [pc EXCEPT ![p] = "denied"]
  /\ UNCHANGED <<shared, rr, now, call, role, res, ret, caller, orig, sec, sets, grp, failed>>
  /\ UNCHANGED nsecv

\* the reply leaves the goroutine
DenialDone(p) ==
  /\ ~crashed
  /\ pc[p] = "denied"
  /\ msg' = [msg EXCEPT ![p] = NoMsg]
  /\ orig' = [orig EXCEPT ![p] = NoMsg]
  /\ pc' = [pc EXCEPT ![p] = "idle"]
  /\ UNCHANGED <<shared, rr, now, call, role, res, ret, caller, sec, sets, grp, failed>>
  /\ UNCHANGED nsecv

(* --------------------------- calls of byteArith ------------------------ *)
\* the bytes a buffer is made of, and the buffers
Bytes == {0, 1, 127, 128, 254, 255}
Bufs == UNION { [1..n -> Bytes] : n \in 1..MaxWidth }

\* byteArith(b, x) on the buffer
ByteArithCall(x) ==
  /\ Len(arith.ops) < MaxCalls
  /\ arith' = [arith EXCEPT !.b = byteArith(@, x), !.ops = Append(@, x)]
  /\ UNCHANGED <<shared, locals, caller, signv, config, sha1>>

(* --------------------------- specifications ---------------------------- *)
\* the steps of signSet, single.Do and the cache that need no clock jump
SignSetFresh(p) ==
  \/ SearchRLock(p) \/ SearchHit(p) \/ SearchMiss(p)
  \/ DoLead(p) \/ DoFollow(p) \/ SignOk(p) \/ SignFail(p)
  \/ Unregister(p) \/ Wait(p)
  \/ AfterDoErr(p) \/ AfterDoInsert(p) \/ AfterDoShared(p)
  \/ InsertLock(p) \/ InsertWrite(p)

\* the steps on a cached signature found expired
SignSetExpired(p) == SearchExpired(p) \/ Remove(p) \/ RemoveCrash(p)

\* Spec: two goroutines call signSet for any of RRsets, at any time
Pair == {1, 2}

Next ==
  \/ Tick
  \/ \E p \in Pair :
       \/ \E r \in RRsets : Call(p, r)
       \/ Finish(p)
       \/ SignSetFresh(p)
       \/ SignSetExpired(p)

Spec == Init /\ [][Next]_vars

\* SpecTwice: two goroutines call signSet for one RRset, at any time, and may
\* call a second time and write to the signature they were handed
NextTwice ==
  \/ Tick
  \/ \E p \in Pair :
       \/ Call(p, <<RecA1>>)
       \/ CallAgain(p) \/ Mutate(p) \/ Finish(p)
       \/ SignSetFresh(p)
       \/ SignSetExpired(p)

SpecTwice == Init /\ [][NextTwice]_vars

\* SpecDo: all goroutines call signSet for one RRset at one instant, so that
\* no signature expires
NextDo ==
  \E p \in Procs :
    \/ Call(p, <<RecA1>>)
    \/ Finish(p)
    \/ SignSetFresh(p)

SpecDo == Init /\ [][NextDo]_vars

\* SpecDoFair: three goroutines call signSet for one RRset, once each, and a
\* goroutine whose WaitGroup has been released is scheduled in the end
NextDoFair ==
  \E p \in Procs :
    \/ Call(p, <<RecA1>>)
    \/ SignSetFresh(p)

SpecDoFair == Init /\ [][NextDoFair]_vars /\ \A p \in Procs : WF_vars(Wait(p))

\* SpecSign: two goroutines run sign on any of Msgs at one instant
NextSign ==
  \E p \in Pair :
    \/ \E m \in Msgs : SignStart(p, m)
    \/ SignSkip(p) \/ SignCall(p) \/ SignAppend(p) \/ SignUnsigned(p)
    \/ SignNextSection(p)
    \/ \E bufsize \in Bufsizes : SignFinish(p, bufsize)
    \/ SignDone(p)
    \/ SignSetFresh(p)

SpecSign == Init /\ [][NextSign]_vars

\* SpecDenial: under any configuration and any hash function, a goroutine
\* hands replies to Denial
InitDenial ==
  /\ InitServer
  /\ config \in Configs
  /\ sha1 \in [QNames -> Digests]
  /\ arith = NoArith

NextDenial ==
  \/ \E m \in DenialMsgs : DenialStart(1, m)
  \/ DenialRun(1)
  \/ DenialDone(1)

SpecDenial == InitDenial /\ [][NextDenial]_vars

\* SpecArith: byteArith is called on any buffer, up to MaxCalls times
InitArith ==
  /\ InitServer
  /\ config = Config(OwnerOf(Sha1Empty), OwnerOf(Sha1Empty))
  /\ sha1 = [q \in QNames |-> Sha1Empty]
  /\ arith \in { [b0 |-> b, b |-> b, ops |-> <<>>] : b \in Bufs }

NextArith == \E x \in BOOLEAN : ByteArithCall(x)

SpecArith == InitArith /\ [][NextArith]_vars

(* ============================== claims ================================= *)
\* the goroutine stands inside single.Do, lines 385-407, with its call record
InDo(p) == pc[p] \in {"fn", "unreg", "wait", "do_ret"}
\* the goroutine stands inside signSet
Inside(p) == pc[p] \notin {"idle", "returned"}
\* number of runs of the operation on the call records of p and q
Runs(p, q) ==
  IF call[p] = call[q] THEN calls[call[p]].execs
  ELSE calls[call[p]].execs + calls[call[q]].execs

\* C1, as claimed: whenever two calls of Do for one key are both under way (both
\* have started, none has returned), the operation has run at most once for
\* them, and once both have their return values these are the same.
C1_OncePerOverlap ==
  \A p, q \in Procs :
    (p # q /\ InDo(p) /\ InDo(q) /\ key(rr[p]) = key(rr[q])) =>
      /\ Runs(p, q) <= 1
      /\ (pc[p] = "do_ret" /\ pc[q] = "do_ret") =>
           (res[p].val = res[q].val /\ res[p].err = res[q].err)

\* C1, amended: callers whose registry lookup comes before the leader
\* deregisters share the leader's call record; the operation runs exactly once
\* per call record, every caller of the record gets the value and error of that
\* one run, and no key has two registered leaders.
C1_OncePerCallRecord ==
  /\ \A c \in CallIds : calls[c].execs <= 1
  /\ \A p \in Procs :
       pc[p] = "do_ret" =>
         /\ calls[call[p]].execs = 1
         /\ res[p].val = calls[call[p]].val
         /\ res[p].err = calls[call[p]].err
  /\ \A p, q \in Procs :
       (pc[p] = "do_ret" /\ pc[q] = "do_ret" /\ call[p] = call[q]) =>
         (res[p].val = res[q].val /\ res[p].err = res[q].err)
  /\ \A p, q \in Procs :
       (p # q /\ pc[p] \in {"fn", "unreg"} /\ pc[q] \in {"fn", "unreg"}) =>
         key(rr[p]) # key(rr[q])

\* C1 witness: a leader and two followers hold the return values of one call record
C1_ThreeShareOneRun ==
  \E p \in Procs :
    /\ role[p] = "leader"
    /\ \A q \in Procs : pc[q] = "do_ret" /\ call[q] = call[p]
    /\ \A q \in Procs \ {p} : role[q] = "follower"

\* C2: a goroutine that was alone inside signSet since its first call began,
\* whose first call signed the RRset itself, and whose second call for the same
\* RRset starts while the first signature is valid 24 hours ahead, gets from
\* the second call a signature with the data of the first, and the signing
\* primitive has run exactly once since the first call began.
C2_SecondCallFromCache ==
  \A p \in Procs :
    (/\ pc[p] = "returned"
     /\ first[p] # NoFirst
     /\ quiet[p]
     /\ first[p].role = "leader"
     /\ ValidityPeriod(first[p].sig, now[p] + Lookahead)) =>
      /\ ret[p].err = NoErr
      /\ ret[p].sig # Nil
      /\ ret[p].sig.data = first[p].sig.data
      /\ nsign = base[p] + 1

\* C2 witness: such a second call has returned, served from the cache, after
\* the clock has moved on
C2_SecondCallReturned ==
  \E p \in Procs :
    /\ pc[p] = "returned"
    /\ first[p] # NoFirst
    /\ quiet[p]
    /\ first[p].role = "leader"
    /\ ValidityPeriod(first[p].sig, now[p] + Lookahead)
    /\ now[p] > first[p].sig.incep + Backdate
    /\ role[p] = "hit"

\* C3, as claimed: once a signing for a fingerprint has succeeded (and the entry
\* was not removed as expired since) and no caller for that fingerprint is
\* inside signSet any more, the cache holds an entry for the fingerprint.
C3_CachedOnceSigned ==
  \A k \in signedOk :
    (\A p \in Procs : Inside(p) => key(rr[p]) # k) => k \in DOMAIN cache

\* C4, as claimed: Do hands shared = false to the leader and shared = true to
\* every follower.
C4_SharedIffFollower ==
  \A p \in Procs :
    pc[p] = "do_ret" => (res[p].shared <=> role[p] = "follower")

\* C5: a lookup returns the cached signature only if it is valid 24 hours
\* from now; a lookup that finds a cached signature not valid 24 hours from now
\* goes on to remove, and remove leaves no entry for the fingerprint and goes
\* on to the miss path (single.Do and the signer).
C5_ExpiredIsRemoved ==
  [][\A p \in Procs :
       /\ (role[p] # "hit" /\ role'[p] = "hit") =>
            /\ ret'[p].sig # Nil
            /\ ValidityPeriod(ret'[p].sig, now[p] + Lookahead)
            /\ ret'[p].sig.expir >= now[p] + Lookahead
       /\ (pc[p] = "rlocked" /\ pc'[p] # "rlocked"
             /\ key(rr[p]) \in DOMAIN cache
             /\ cache[key(rr[p])].expir < now[p] + Lookahead) =>
            pc'[p] = "remove"
       /\ (pc[p] = "remove" /\ pc'[p] # "remove") =>
            /\ key(rr[p]) \notin DOMAIN cache'
            /\ pc'[p] = "miss"
       /\ (pc[p] = "miss" /\ pc'[p] # "miss") => pc'[p] \in {"fn", "wait"}
    ]_vars

\* C5 witness: a goroutine has removed an expired entry and is signing afresh
C5_ExpiredBeingResigned ==
  \E p \in Procs :
    /\ role[p] = "leader"
    /\ pc[p] = "unreg"
    /\ now[p] >= SignFor - Lookahead + 1
    /\ calls[call[p]].val.data = 2
    /\ key(rr[p]) \notin DOMAIN cache

\* C6, as claimed: every step that changes the cache map is taken by a
\* goroutine holding the cache's exclusive lock.
C6_MutationsHoldLock ==
  [][\A p \in Procs :
       (cache' # cache /\ pc'[p] # pc[p]) => cacheLock.writer = p
    ]_vars

\* C7: a signature signSet has handed to its caller is never the object the
\* cache stores, and a caller's write to the signature it was handed leaves the
\* cache as it was.
C7_ReturnedIsACopy ==
  /\ [](\A p \in Procs : \A k \in DOMAIN cache :
          /\ ret[p].sig # Nil => ret[p].sig.ptr # cache[k].ptr
          /\ first[p].sig # Nil => first[p].sig.ptr # cache[k].ptr)
  /\ [][(\E p \in Procs : Mutate(p)) => cache' = cache]_vars

\* C7 witness: a caller has written to the signature a cache hit handed it,
\* and the cached entry still has the Ttl it was stored with
C7_WrittenCopyOfEntry ==
  \E p \in Procs :
    /\ pc[p] = "returned"
    /\ role[p] = "hit"
    /\ ret[p].sig.ttl = 0
    /\ key(rr[p]) \in DOMAIN cache
    /\ cache[key(rr[p])].data = ret[p].sig.data
    /\ cache[key(rr[p])].ttl # 0

\* C8: insert under a fingerprint that has an entry changes nothing in the
\* map; insert under a fingerprint without entry adds exactly that entry.
C8_FirstWriterWins ==
  [][\A p \in Procs :
       (pc[p] = "wlocked" /\ pc'[p] # "wlocked") =>
         /\ \A k \in DOMAIN cache : k \in DOMAIN cache' /\ cache'[k] = cache[k]
         /\ DOMAIN cache' = DOMAIN cache \cup {key(rr[p])}
         /\ key(rr[p]) \notin DOMAIN cache => cache'[key(rr[p])] = res[p].val
    ]_vars

\* C8 witness: a goroutine holds the exclusive lock inside insert, under a
\* fingerprint whose entry is another signature
C8_InsertOverEntry ==
  \E p \in Procs :
    /\ pc[p] = "wlocked"
    /\ key(rr[p]) \in DOMAIN cache
    /\ cache[key(rr[p])].data # res[p].val.data

\* the records sign has added to section i of the message of p (without the
\* OPT record it appends to Extra at the end)
Added(p, i) ==
  LET n == Section(msg[p], i)
      last == IF i = 3 /\ pc[p] = "signed" THEN Len(n) - 1 ELSE Len(n)
  IN SubSeq(n, Len(Section(orig[p], i)) + 1, last)
\* the signatures among them that cover group g
Covering(p, i, g) ==
  {j \in DOMAIN Added(p, i) :
     /\ Added(p, i)[j].name = g[1]
     /\ Added(p, i)[j].rdata.covered = g[2]}
\* the groups of section i of the message as p received it
Groups(p, i) == DOMAIN rrSets(Section(orig[p], i))

\* C9: when Do hands signSet an error, signSet returns nil and that error
\* and leaves the cache as it was (so does the failing run of the signer); sign
\* then leaves the message as it was and goes on with the other groups; and
\* when sign is done, every group it did not skip and whose signSet did not
\* fail has its signature in its section.
C9_FailureStaysLocal ==
  /\ [][\A p \in Procs :
          /\ (pc[p] = "fn" /\ pc'[p] # "fn" /\ calls'[call[p]].err # NoErr) =>
               cache' = cache
          /\ (pc[p] = "do_ret" /\ pc'[p] # "do_ret" /\ res[p].err # NoErr) =>
               /\ pc'[p] = "returned"
               /\ ret'[p] = [sig |-> Nil, err |-> res[p].err]
               /\ cache' = cache
          /\ (pc[p] = "returned" /\ pc'[p] # "returned" /\ sec[p] # 0
                /\ ret[p].err # NoErr) =>
               /\ msg'[p] = msg[p]
               /\ pc'[p] = "loop"
               /\ sets'[p] = MapDel(sets[p], grp[p])
               /\ sec'[p] = sec[p]
       ]_vars
  /\ [](\A p \in Procs :
          pc[p] = "signed" =>
            \A i \in 1..3 : \A g \in Groups(p, i) :
              (g[2] # TypeRRSIG /\ <<i, g>> \notin failed[p]) => Covering(p, i, g) # {})

\* C9 witness: sign is done with a message of which one group failed and a
\* later section got its signature
C9_SignedAfterFailure ==
  \E p \in Procs :
    /\ pc[p] = "signed"
    /\ \E f \in failed[p] : \E i \in 1..3 : i > f[1] /\ Added(p, i) # <<>>

\* C10: when sign is done, each section begins with the records it had, in
\* their order; what was added to it are RRSIGs, exactly one for every group of
\* that section that is not a group of RRSIGs and whose signSet did not fail,
\* and none for any other group.
C10_OneSignaturePerGroup ==
  \A p \in Procs :
    pc[p] = "signed" =>
      \A i \in 1..3 :
        LET o == Section(orig[p], i)
            n == Section(msg[p], i)
            signedGroups == {g \in Groups(p, i) : g[2] # TypeRRSIG /\ <<i, g>> \notin failed[p]}
        IN /\ Len(n) >= Len(o)
           /\ SubSeq(n, 1, Len(o)) = o
           /\ \A j \in DOMAIN Added(p, i) : Added(p, i)[j].rrtype = TypeRRSIG
           /\ \A g \in signedGroups : Cardinality(Covering(p, i, g)) = 1
           /\ \A g \in Groups(p, i) \ signedGroups : Covering(p, i, g) = {}
           /\ Len(Added(p, i)) = Cardinality(signedGroups)

\* C10 witness: sign is done with a message that carried an RRSIG, no signSet
\* failed, and each section got its signatures
C10_AllSectionsSigned ==
  \E p \in Procs :
    /\ pc[p] = "signed"
    /\ failed[p] = {}
    /\ \E j \in DOMAIN orig[p].Answer : orig[p].Answer[j].rrtype = TypeRRSIG
    /\ \A i \in 1..3 : Added(p, i) # <<>>

(* ------------------------ claims on Denial and NSEC3 ------------------- *)
\* the goroutine has a reply back from Denial; the name asked for and its digest
Denied(p) == pc[p] = "denied"
QName(p) == orig[p].Question[1].Name
QHash(p) == sha1[QName(p)]
\* the first record Denial appended to the authority section
FirstAppended(p) == msg[p].Ns[Len(orig[p].Ns) + 1]

\* a byte string as an unsigned big-endian number: one more and one less,
\* modulo 2^(8 * width), and the order
TrailingRun(b, v) ==
  CHOOSE k \in 0..Len(b) :
    /\ \A i \in (Len(b) - k + 1)..Len(b) : b[i] = v
    /\ k = Len(b) \/ b[Len(b) - k] # v
AddOne(b) ==
  LET k == TrailingRun(b, 255)
  IN [i \in 1..Len(b) |-> IF i > Len(b) - k THEN 0
                          ELSE IF i = Len(b) - k THEN b[i] + 1 ELSE b[i]]
SubOne(b) ==
  LET k == TrailingRun(b, 0)
  IN [i \in 1..Len(b) |-> IF i > Len(b) - k THEN 255
                          ELSE IF i = Len(b) - k THEN b[i] - 1 ELSE b[i]]
Less(a, b) ==
  \E i \in 1..Len(a) : a[i] < b[i] /\ \A j \in 1..(i - 1) : a[j] = b[j]
AllOf(b, v) == \A i \in 1..Len(b) : b[i] = v

\* the hash label of an owner name (the base32 text before the domain), and
\* the hashes an NSEC3 record names
ToUpper(t) == [i \in DOMAIN t |-> IF t[i] >= 97 /\ t[i] <= 122 THEN t[i] - 32 ELSE t[i]]
Label(r) == SubSeq(r.name, 1, Len(r.name) - Len(config.Domain) - 1)
OwnerHash(r) == packBase32(ToUpper(Label(r)))
NextHash(r) == packBase32(r.rdata.nextDomain)

\* C11: for a reply with result code NameError, Denial leaves in the authority
\* section what was there, followed by the NXDOMAIN NSEC3 of the question name,
\* then the closest-encloser record unless its owner name is that NSEC3's owner
\* name, then the wildcard-denial record unless its owner name is that NSEC3's.
C11_NameErrorRecords ==
  \A p \in Procs :
    (Denied(p) /\ orig[p].Rcode = RcodeNameError) =>
      LET nsec3 == NewNSEC3NameError(QName(p))
          ce == IF config.ClosestEncloser.name = nsec3.name THEN <<>>
                ELSE <<config.ClosestEncloser>>
          dw == IF config.DenyWildcard.name = nsec3.name THEN <<>>
                ELSE <<config.DenyWildcard>>
      IN msg[p].Ns = ((orig[p].Ns \o <<nsec3>>) \o ce) \o dw

\* C11 witness: a NameError reply is back from Denial without the
\* closest-encloser record (its owner is the NSEC3's) and with the wildcard one
C11_EncloserLeftOut ==
  \E p \in Procs :
    /\ Denied(p)
    /\ orig[p].Rcode = RcodeNameError
    /\ FirstAppended(p).name = config.ClosestEncloser.name
    /\ FirstAppended(p).name # config.DenyWildcard.name
    /\ Len(msg[p].Ns) = Len(orig[p].Ns) + 2

\* C12: Denial appends the NODATA NSEC3 of the question name when the result
\* code is success and the authority section is one SOA record, and only then;
\* for any other reply whose result code is not NameError the authority
\* section is as it was; the rest of the reply is as it was in every case.
C12_NoDataOnlyForLoneSoa ==
  \A p \in Procs :
    Denied(p) =>
      LET o == orig[p]
          nodata == o.Rcode = RcodeSuccess /\ Len(o.Ns) = 1 /\ o.Ns[1].rrtype = TypeSOA
      IN /\ nodata => msg[p].Ns = Append(o.Ns, NewNSEC3NoData(QName(p)))
         /\ (~nodata /\ o.Rcode # RcodeNameError) => msg[p].Ns = o.Ns
         /\ ~nodata => \A i \in DOMAIN msg[p].Ns :
                         i > Len(o.Ns) => msg[p].Ns[i] # NewNSEC3NoData(QName(p))
         /\ [msg[p] EXCEPT !.Ns = o.Ns] = o

\* C12 witness: a reply with result code success and one SOA is back from
\* Denial with one more record in its authority section
C12_NoDataAppended ==
  \E p \in Procs :
    /\ Denied(p)
    /\ orig[p].Rcode = RcodeSuccess
    /\ orig[p].Ns = <<RecSoa>>
    /\ Len(msg[p].Ns) = 2
    /\ orig[p].Answer # <<>>

\* C13, as claimed: the NXDOMAIN NSEC3 has the hash of the name less one as
\* its owner hash and the hash of the name plus two as its next hashed owner.
C13_NextIsHashPlusTwo ==
  \A p \in Procs :
    (Denied(p) /\ orig[p].Rcode = RcodeNameError) =>
      /\ OwnerHash(FirstAppended(p)) = SubOne(QHash(p))
      /\ NextHash(FirstAppended(p)) = AddOne(AddOne(QHash(p)))

\* C13, amended: the owner hash is the hash of the name less one; the next
\* hashed owner is the hash of the name plus one (the two increments start
\* from the decremented hash), but the all-0xFF value when the hash is
\* all-zero or all-0xFF.
C13_NextIsHashPlusOne ==
  \A p \in Procs :
    (Denied(p) /\ orig[p].Rcode = RcodeNameError) =>
      LET h == QHash(p)
          r == FirstAppended(p)
      IN /\ r.rrtype = TypeNSEC3
         /\ r.name = (Label(r) \o <<46>>) \o config.Domain
         /\ Label(r) = ToLower(unpackBase32(SubOne(h)))
         /\ r.rdata.nextDomain =
              unpackBase32(IF AllOf(h, 0) \/ AllOf(h, 255) THEN Rep(Len(h), 255)
                           ELSE AddOne(h))

\* C13 witness: the NXDOMAIN NSEC3 of a name whose hash ends in 0xFF, so
\* that the second increment carries
C13_NextAfterCarry ==
  \E p \in Procs :
    /\ Denied(p)
    /\ orig[p].Rcode = RcodeNameError
    /\ QHash(p)[Sha1Size] = 255
    /\ ~AllOf(QHash(p), 255)
    /\ NextHash(FirstAppended(p))[Sha1Size] = 0

\* C14: the NODATA NSEC3 has the hash of the name as its owner hash and the
\* hash of the name plus one as its next hashed owner.
C14_NoDataInterval ==
  \A p \in Procs :
    (Denied(p) /\ orig[p].Rcode = RcodeSuccess /\ Len(msg[p].Ns) > Len(orig[p].Ns)) =>
      LET h == QHash(p)
          r == FirstAppended(p)
      IN /\ Label(r) = unpackBase32(h)
         /\ NextHash(r) = AddOne(h)

\* C20, as claimed: the NXDOMAIN NSEC3 has its owner hash below the hash of
\* the name and its next hashed owner above it.
C20_StrictlyCovers ==
  \A p \in Procs :
    (Denied(p) /\ orig[p].Rcode = RcodeNameError) =>
      /\ Less(OwnerHash(FirstAppended(p)), QHash(p))
      /\ Less(QHash(p), NextHash(FirstAppended(p)))

\* C20, amended: the owner hash is never the hash of the name, and unless the
\* hash of the name is all-zero or all-0xFF the owner hash is below it and the
\* next hashed owner above it.
C20_CoversUnlessExtreme ==
  \A p \in Procs :
    (Denied(p) /\ orig[p].Rcode = RcodeNameError) =>
      LET h == QHash(p)
          r == FirstAppended(p)
      IN /\ OwnerHash(r) # h
         /\ Len(OwnerHash(r)) = Sha1Size
         /\ (~AllOf(h, 0) /\ ~AllOf(h, 255)) =>
              Less(OwnerHash(r), h) /\ Less(h, NextHash(r))

\* C20 witness: the NXDOMAIN NSEC3 of a name whose hash ends in a zero byte:
\* the owner hash differs from it in two bytes and is below it
C20_CoversAfterBorrow ==
  \E p \in Procs :
    /\ Denied(p)
    /\ orig[p].Rcode = RcodeNameError
    /\ QHash(p)[Sha1Size] = 0
    /\ ~AllOf(QHash(p), 0)
    /\ OwnerHash(FirstAppended(p))[Sha1Size] = 255
    /\ Less(OwnerHash(FirstAppended(p)), QHash(p))

(* -------------------------- claims on byteArith ------------------------ *)
\* C15: on a buffer that is neither all-zero nor all-0xFF, an increment
\* followed by a decrement, and a decrement followed by an increment, leave
\* the buffer as it was.
C15_RoundTrip ==
  (/\ arith.ops \in {<<TRUE, FALSE>>, <<FALSE, TRUE>>}
   /\ ~AllOf(arith.b0, 0)
   /\ ~AllOf(arith.b0, 255)) => arith.b = arith.b0

\* C15 witness: an increment that carried into the byte to the left has been
\* undone by a decrement
C15_CarryUndone ==
  /\ arith.ops = <<TRUE, FALSE>>
  /\ Len(arith.b0) > 1
  /\ arith.b0[Len(arith.b0)] = 255
  /\ arith.b = arith.b0
  /\ arith.b0[1] # 255

\* C19: an increment of the all-0xFF buffer gives the all-zero buffer, and a
\* decrement of the all-zero buffer the all-0xFF buffer.
C19_WrapsAround ==
  /\ (arith.ops = <<TRUE>> /\ AllOf(arith.b0, 255)) => AllOf(arith.b, 0)
  /\ (arith.ops = <<FALSE>> /\ AllOf(arith.b0, 0)) => AllOf(arith.b, 255)

(* ------------------- claims on the key and on single.Do ---------------- *)
\* the record data of an RRset
DataOf(rrs) == [i \in DOMAIN rrs |-> rrs[i].rdata]

\* C16: two RRsets in the hands of signSet with the same owner and type and
\* different record data have different fingerprints, and a signature signSet
\* returns was computed over the record data of the RRset it was called for.
C16_DataDecidesKey ==
  /\ \A p, q \in Procs :
       (/\ rr[p] # <<>> /\ rr[q] # <<>>
        /\ rr[p][1].name = rr[q][1].name
        /\ rr[p][1].rrtype = rr[q][1].rrtype
        /\ DataOf(rr[p]) # DataOf(rr[q])) => key(rr[p]) # key(rr[q])
  /\ \A p \in Procs :
       (pc[p] = "returned" /\ ret[p].sig # Nil) => DataOf(ret[p].sig.over) = DataOf(rr[p])

\* C17: no two goroutines run the operation for one key at a time, and a
\* caller that enters Do for a key whose operation is running becomes a
\* follower of that run and waits.
C17_OneRunPerKey ==
  /\ [](\A p, q \in Procs :
          (p # q /\ pc[p] = "fn" /\ pc[q] = "fn") => key(rr[p]) # key(rr[q]))
  /\ [][\A p, q \in Procs :
          (/\ pc[p] = "miss" /\ pc'[p] # "miss"
           /\ pc[q] = "fn" /\ key(rr[q]) = key(rr[p])) =>
             /\ pc'[p] = "wait"
             /\ call'[p] = call[q]
             /\ nsign' = nsign
             /\ ~calls'[call[q]].done]_vars

\* C17 witness: one goroutine runs the operation and the two others wait for
\* it, under the same call record
C17_TwoWaitForOne ==
  \E p \in Procs :
    /\ pc[p] = "fn"
    /\ \A q \in Procs \ {p} : pc[q] = "wait" /\ call[q] = call[p]

\* C18: a follower waiting on a call record whose operation has returned
\* leaves Do in the end, and an entry of the registry is that of a leader who
\* has not yet passed line 404: when no call for the key is inside Do, the
\* registry has no entry for it, whether the operation failed or not.
C18_FollowersReturn ==
  /\ \A p \in Procs :
       (pc[p] = "wait" /\ calls[call[p]].execs > 0) ~> (pc[p] # "wait")
  /\ [](\A k \in DOMAIN inflight :
          \E p \in Procs : /\ pc[p] \in {"fn", "unreg"}
                           /\ key(rr[p]) = k
                           /\ inflight[k] = call[p])

\* C18 witness: the operation failed, and the leader and its two followers are
\* back from signSet with the error; the registry is empty
C18_AllBackAfterError ==
  /\ inflight = EmptyMap
  /\ \A p \in Procs : pc[p] = "returned" /\ ret[p].err = SignErr
  /\ Cardinality({p \in Procs : role[p] = "follower"}) = 2
====
